---- MODULE Spec2Model ----
\* The single-slot task lifecycle controller of the window-post snark server:
\* ServerInfo behind one mutex, the four RPC handlers of WindowPostSnarkServer,
\* the run-signal channel and the task executor that writes results back.
EXTENDS Integers, Sequences, FiniteSets, TLC

\* ---------------------------------------------------------------- bounds

\* The clock stops advancing at MaxTime.
MaxTime == 2
\* The run-signal channel is unbounded in the code; the model holds at most MaxChan signals.
MaxChan == 2

\* ------------------------------------------------------------- constants

\* ServerInfo's timeouts, as set_time_out() sets them before the server starts:
\* one clock unit for a lock, two for fetching a finished task's result.
server_lock_time_out == 1
server_task_get_back_time_out == 2
server_exit_time_out_after_task_done == 1

\* ---------------------------------------------------------------- inputs

\* task_id arguments the clients send; the empty string is a legal String.
TaskIds == {"A", "B", ""}

\* The request bodies of DoSnarkTask, without the task_id.
Blobs ==
    { [vanilla_proof |-> <<1, 2, 3>>, pub_in |-> <<4>>, post_config |-> <<5>>, replicas_len |-> 1] }

SnarkTaskRequestParams ==
    { [task_id |-> id, vanilla_proof |-> b.vanilla_proof, pub_in |-> b.pub_in,
       post_config |-> b.post_config, replicas_len |-> b.replicas_len] : id \in TaskIds, b \in Blobs }

\* What the proof engine may hand back: bytes, or an error string.
Results == { <<>>, <<222, 173>>, <<7>> }
Errors == { "gpu oom" }

\* ------------------------------------------------------------ data model

ServerStatus == { "Free", "Locked", "Working", "Unknown" }
TaskStatus == { "Ready", "Working", "Done", "Failed", "Returned" }

\* #[derive(Default)] TaskInfo
TaskInfoDefault ==
    [task_id |-> "", vanilla_proof |-> <<>>, pub_in |-> <<>>, post_config |-> <<>>,
     replicas_len |-> 0, result |-> <<>>, task_status |-> "Ready"]

set_task_info(snark_params) ==
    [task_id |-> snark_params.task_id,
     vanilla_proof |-> snark_params.vanilla_proof,
     pub_in |-> snark_params.pub_in,
     post_config |-> snark_params.post_config,
     replicas_len |-> snark_params.replicas_len,
     result |-> <<>>,
     task_status |-> "Ready"]

\* ServerInfo::default(), built at time t. The timeouts are the definitions above.
ServerInfoDefault(t) ==
    [task_info |-> TaskInfoDefault, status |-> "Free", last_update_time |-> t, error |-> ""]

\* Result<T, Status>: code "OK" carries val, any other code carries msg.
\* msg is the message as the sequence of the parts format!() concatenates.
Ok(v) == [code |-> "OK", msg |-> <<>>, val |-> v]
Err(c, m) == [code |-> c, msg |-> m, val |-> <<>>]

\* error::Error's #[error(...)] formats
InvalidParameters(s) == <<"Invalid parameters file: ">> \o s
NoTaskRunningOnSever == <<"no task running on this server">>
TaskFailedWithError(e) == <<"task failed with error: ", e>>

\* Instant::duration_since
duration_since(t, earlier) == t - earlier

\* ------------------------------------------------- the slot state machine
\* Each handler runs under the ServerInfo mutex: a function of the ServerInfo
\* it finds (s) and the clock (t), giving the ServerInfo it leaves and its return.

\* A variant that installs the task_id over the task it finds in the slot.
Steal_KeepTask(s, task_id, t) ==
    [s EXCEPT !.task_info.task_id = task_id,
              !.status = "Locked",
              !.last_update_time = t]

\* A variant that installs the task_id and leaves the status as it was.
Steal_KeepStatus(s, task_id, t) ==
    [s EXCEPT !.task_info = [TaskInfoDefault EXCEPT !.task_id = task_id],
              !.last_update_time = t]

\* The four assignments every acquiring branch of lock_server_if_free makes.
Steal(s, task_id, t) ==
    [s EXCEPT !.task_info = [TaskInfoDefault EXCEPT !.task_id = task_id],
              !.status = "Locked",
              !.last_update_time = t]

\* A variant that reclaims a lock at the bound already.
lock_time_out_elapsed_AtBound(s, t) ==
    duration_since(t, s.last_update_time) >= server_lock_time_out

\* "if locked too long and still not received task from miner"
lock_time_out_elapsed(s, t) ==
    duration_since(t, s.last_update_time) > server_lock_time_out

\* A variant that reclaims a finished task only if it succeeded.
get_back_time_out_elapsed_DoneOnly(s, t) ==
    /\ s.task_info.task_status = "Done"
    /\ duration_since(t, s.last_update_time) >= server_task_get_back_time_out

\* A variant that reclaims a Working slot whatever the state of its task.
get_back_time_out_elapsed_AnyTask(s, t) ==
    duration_since(t, s.last_update_time) >= server_task_get_back_time_out

\* A variant that reclaims only strictly after the bound.
get_back_time_out_elapsed_Strict(s, t) ==
    \/ /\ s.task_info.task_status = "Done"
       /\ duration_since(t, s.last_update_time) > server_task_get_back_time_out
    \/ /\ s.task_info.task_status = "Failed"
       /\ duration_since(t, s.last_update_time) > server_task_get_back_time_out

\* "if miner do not get result back in SERVER_TASK_GET_BACK_TIME_OUT after task done or failed"
get_back_time_out_elapsed(s, t) ==
    \/ /\ s.task_info.task_status = "Done"
       /\ duration_since(t, s.last_update_time) >= server_task_get_back_time_out
    \/ /\ s.task_info.task_status = "Failed"
       /\ duration_since(t, s.last_update_time) >= server_task_get_back_time_out

\* A variant whose refused calls restart the holder's clock.
lock_server_if_free_Touch(s, task_id, t) ==
    CASE s.status = "Free" ->
            [si |-> Steal(s, task_id, t), ret |-> Ok("Free")]
      [] s.status = "Locked" ->
            IF lock_time_out_elapsed(s, t)
            THEN [si |-> Steal(s, task_id, t), ret |-> Ok("Free")]
            ELSE [si |-> [s EXCEPT !.last_update_time = t], ret |-> Ok("Locked")]
      [] s.status = "Working" ->
            IF get_back_time_out_elapsed(s, t)
            THEN [si |-> Steal(s, task_id, t), ret |-> Ok("Free")]
            ELSE [si |-> [s EXCEPT !.last_update_time = t], ret |-> Ok("Working")]
      [] s.status = "Unknown" ->
            [si |-> s, ret |-> Ok("Unknown")]

lock_server_if_free(s, task_id, t) ==
    CASE s.status = "Free" ->
            [si |-> Steal(s, task_id, t), ret |-> Ok("Free")]
      [] s.status = "Locked" ->
            IF lock_time_out_elapsed(s, t)
            THEN [si |-> Steal(s, task_id, t), ret |-> Ok("Free")]
            ELSE [si |-> s, ret |-> Ok("Locked")]
      [] s.status = "Working" ->
            IF get_back_time_out_elapsed(s, t)
            THEN [si |-> Steal(s, task_id, t), ret |-> Ok("Free")]
            ELSE [si |-> s, ret |-> Ok("Working")]
      [] s.status = "Unknown" ->
            [si |-> s, ret |-> Ok("Unknown")]

\* The rejections of do_task, by status.
do_task_rejection(s) ==
    CASE s.status = "Locked" ->
            Err("CANCELLED", <<"server was locked by another task, can not be used now">>)
      [] s.status = "Free" ->
            Err("CANCELLED", <<"server should be locked until task is executed">>)
      [] s.status = "Working" ->
            Err("CANCELLED", <<"server is working on another task, can not be used now">>)
      [] s.status = "Unknown" ->
            Err("CANCELLED", <<"server is Unknown, can not be used now">>)

\* A variant that signals the executor before it looks at the slot.
do_task_SignalFirst(s, task_params, t, open) ==
    IF s.status = "Locked" /\ s.task_info.task_id = task_params.task_id
    THEN [si |-> [s EXCEPT !.task_info = set_task_info(task_params),
                           !.status = "Working",
                           !.last_update_time = t],
          sent |-> open,
          ret |-> IF open THEN Ok(<<>>) ELSE Err("CANCELLED", <<"ok">>)]
    ELSE [si |-> s, sent |-> open, ret |-> do_task_rejection(s)]

\* A variant that also takes a resubmission by the holder of a Working slot.
do_task_Resubmit(s, task_params, t, open) ==
    IF s.status \in {"Locked", "Working"} /\ s.task_info.task_id = task_params.task_id
    THEN [si |-> [s EXCEPT !.task_info = set_task_info(task_params),
                           !.status = "Working",
                           !.last_update_time = t],
          sent |-> open,
          ret |-> IF open THEN Ok(<<>>) ELSE Err("CANCELLED", <<"ok">>)]
    ELSE [si |-> s, sent |-> FALSE, ret |-> do_task_rejection(s)]

\* A variant that takes the task from whoever sends it while the slot is Locked.
do_task_AnyId(s, task_params, t, open) ==
    IF s.status = "Locked"
    THEN [si |-> [s EXCEPT !.task_info = set_task_info(task_params),
                           !.status = "Working",
                           !.last_update_time = t],
          sent |-> open,
          ret |-> IF open THEN Ok(<<>>) ELSE Err("CANCELLED", <<"ok">>)]
    ELSE [si |-> s, sent |-> FALSE, ret |-> do_task_rejection(s)]

\* open: whether task_run_tx.send finds the receiver alive (its Err returns the
\* unsent "ok"). sent: whether a signal entered the channel.
do_task(s, task_params, t, open) ==
    IF s.status = "Locked" /\ s.task_info.task_id = task_params.task_id
    THEN [si |-> [s EXCEPT !.task_info = set_task_info(task_params),
                           !.status = "Working",
                           !.last_update_time = t],
          sent |-> open,
          ret |-> IF open THEN Ok(<<>>) ELSE Err("CANCELLED", <<"ok">>)]
    ELSE [si |-> s, sent |-> FALSE, ret |-> do_task_rejection(s)]

\* get_task_result, task_id mismatch
result_mismatch(s, task_id) ==
    [si |-> s,
     ret |-> Err("INVALID_ARGUMENT",
                 InvalidParameters(<<"current working task id is:", s.task_info.task_id,
                                     ",but:", task_id>>))]

\* A variant that hands the result out and leaves the slot Working.
result_done_KeepWorking(s, t) ==
    [si |-> [s EXCEPT !.last_update_time = t, !.task_info.task_status = "Returned"],
     ret |-> Ok(s.task_info.result)]

\* A variant that delivers without writing last_update_time.
result_done_NoTouch(s, t) ==
    [si |-> [s EXCEPT !.status = "Free", !.task_info.task_status = "Returned"],
     ret |-> Ok(s.task_info.result)]

\* get_task_result, task_status Done
result_done(s, t) ==
    [si |-> [s EXCEPT !.status = "Free",
                      !.last_update_time = t,
                      !.task_info.task_status = "Returned"],
     ret |-> Ok(s.task_info.result)]

\* A variant that frees the slot without writing last_update_time.
result_failed_NoTouch(s, t) ==
    [si |-> [s EXCEPT !.status = "Free"],
     ret |-> Err("ABORTED", TaskFailedWithError(s.error))]

\* get_task_result, task_status Failed
result_failed(s, t) ==
    [si |-> [s EXCEPT !.status = "Free", !.last_update_time = t],
     ret |-> Err("ABORTED", TaskFailedWithError(s.error))]

\* A variant in which a poll counts as an update.
result_pending_Touch(s, t) ==
    [si |-> [s EXCEPT !.last_update_time = t], ret |-> Ok(<<>>)]

\* get_task_result, any other task_status: Ok(vec![])
result_pending(s, t) ==
    [si |-> s, ret |-> Ok(<<>>)]

\* A variant that answers whoever asks.
get_task_result_AnyId(s, task_id, t) ==
    IF s.status = "Working"
    THEN IF s.task_info.task_status = "Done"
         THEN result_done(s, t)
         ELSE IF s.task_info.task_status = "Failed"
              THEN result_failed(s, t)
              ELSE result_pending(s, t)
    ELSE [si |-> s, ret |-> Err("CANCELLED", NoTaskRunningOnSever)]

get_task_result(s, task_id, t) ==
    IF s.status = "Working"
    THEN IF task_id # s.task_info.task_id
         THEN result_mismatch(s, task_id)
         ELSE IF s.task_info.task_status = "Done"
              THEN result_done(s, t)
              ELSE IF s.task_info.task_status = "Failed"
                   THEN result_failed(s, t)
                   ELSE result_pending(s, t)
    ELSE [si |-> s, ret |-> Err("CANCELLED", NoTaskRunningOnSever)]

\* A variant of unlock that lets the holder give up a Working slot too.
unlock_AnyStatus(s, task_id, t) ==
    IF s.status = "Free"
    THEN [si |-> s, ret |-> Err("CANCELLED", <<"server is already Free">>)]
    ELSE IF task_id = s.task_info.task_id
         THEN [si |-> [s EXCEPT !.status = "Free",
                                !.task_info = TaskInfoDefault,
                                !.last_update_time = t],
               ret |-> Ok(<<>>)]
         ELSE [si |-> s, ret |-> Err("INVALID_ARGUMENT", <<"not the holder">>)]

\* A variant of unlock that frees the slot and leaves the task in it.
unlock_KeepTask(s, task_id, t) ==
    IF s.status = "Locked" /\ task_id = s.task_info.task_id
    THEN [si |-> [s EXCEPT !.status = "Free", !.last_update_time = t],
          ret |-> Ok(<<>>)]
    ELSE [si |-> s, ret |-> Err("CANCELLED", <<"not unlocked">>)]

unlock(s, task_id, t) ==
    IF s.status = "Free"
    THEN [si |-> s, ret |-> Err("CANCELLED", <<"server is already Free">>)]
    ELSE IF s.status = "Locked"
         THEN IF task_id = s.task_info.task_id
              THEN [si |-> [s EXCEPT !.status = "Free",
                                     !.task_info = TaskInfoDefault,
                                     !.last_update_time = t],
                    ret |-> Ok(<<>>)]
              ELSE [si |-> s,
                    ret |-> Err("INVALID_ARGUMENT",
                                <<"can not be unlocked by another task ,which is locked by task_id:",
                                  s.task_info.task_id, ",but ", task_id>>)]
         ELSE [si |-> s,
               ret |-> Err("CANCELLED",
                           <<"this operation just used to unlock a server in status Locked">>)]

\* ------------------------------------------------------------------ state

VARIABLES
    si,         \* the ServerInfo behind Arc<Mutex<..>>
    now,        \* the monotonic clock Instant::now() reads
    chan,       \* run signals sent on task_run_tx and not yet received
    rx_open,    \* whether the receiving end of the run-signal channel is alive
    exec,       \* the executor: pc "idle" or "running", and the task_id it started
    resp,       \* the response of the RPC that returned last
    produced,   \* the latest accepted submission: its task_id and the bytes the engine returned for it
    delivered,  \* the task_ids whose result was handed out and that have not submitted since
    evicted,    \* the holder the last steal by another task_id put out, and the status it held
    rets,       \* per task_id: what its call returned in a race of lock calls
    pc,         \* per task_id: where its client stands in the protocol it follows
    sup,        \* the supervisor: whether a task has completed, whether the exit
                \* signal was sent; and since when the slot is Free
    poisoned    \* whether the ServerInfo mutex is poisoned

vars == <<si, now, chan, rx_open, exec, resp, produced, delivered, evicted, rets, pc, sup,
         poisoned>>

\* What the server's own steps never touch: the bookkeeping of the clients and
\* of the supervisor.
aux == <<rets, pc, sup>>

\* No submission yet, or no bytes yet.
None == <<"none">>
NoSubmission == [task_id |-> "", bytes |-> None, submitted |-> FALSE]
NoEviction == [task_id |-> "", from |-> "none"]
NoResp == [op |-> "none", task_id |-> "", code |-> "OK", msg |-> <<>>, result |-> <<>>]

Init ==
    /\ si = ServerInfoDefault(0)
    /\ now = 0
    /\ chan = 0
    /\ rx_open = TRUE
    /\ exec = [pc |-> "idle", task_id |-> ""]
    /\ resp = NoResp
    /\ produced = NoSubmission
    /\ delivered = {}
    /\ evicted = NoEviction
    /\ rets = [id \in TaskIds |-> "none"]
    /\ pc = [id \in TaskIds |-> "free"]
    /\ sup = [task_done |-> FALSE, exit_sent |-> FALSE, free_since |-> 0]
    /\ poisoned = FALSE

\* self.server_info.lock(): every handler starts by taking the mutex; if it is
\* poisoned the handler returns Status::aborted(e.to_string()) and does nothing
\* else, otherwise it goes on to r.
server_info_lock(r) ==
    IF poisoned
    THEN [si |-> si, sent |-> FALSE,
          ret |-> Err("ABORTED", <<"poisoned lock: another task failed inside">>)]
    ELSE r

\* -------------------------------------------------------- the RPC facade

\* async fn lock_server_if_free: msg is the returned status's to_string().
LockCall(task_id) ==
    LET r == server_info_lock(lock_server_if_free(si, task_id, now)) IN
    /\ si' = r.si
    /\ resp' = [op |-> "LockServerIfFree", task_id |-> task_id, code |-> r.ret.code,
                msg |-> IF r.ret.code = "OK" THEN <<r.ret.val>> ELSE r.ret.msg,
                result |-> <<>>]
    /\ evicted' = IF r.ret.code # "OK" \/ r.ret.val # "Free" THEN evicted
                  ELSE IF si.status # "Free" /\ si.task_info.task_id # task_id
                       THEN [task_id |-> si.task_info.task_id, from |-> si.status]
                       ELSE IF evicted.task_id = task_id THEN NoEviction ELSE evicted
    /\ UNCHANGED <<now, chan, rx_open, poisoned, exec, produced, delivered>>

LockServerIfFree(task_id) ==
    /\ LockCall(task_id)
    /\ UNCHANGED aux

DoSnarkTaskCall(params) ==
    LET r == server_info_lock(do_task(si, params, now, rx_open)) IN
    /\ r.sent => chan < MaxChan
    /\ si' = r.si
    /\ chan' = IF r.sent THEN chan + 1 ELSE chan
    /\ resp' = [op |-> "DoSnarkTask", task_id |-> params.task_id, code |-> r.ret.code,
                msg |-> IF r.ret.code = "OK" THEN <<"ok">> ELSE r.ret.msg, result |-> <<>>]
    /\ produced' = IF r.si.status # si.status
                   THEN [task_id |-> params.task_id, bytes |-> None, submitted |-> TRUE]
                   ELSE produced
    /\ delivered' = IF r.si.status # si.status THEN delivered \ {params.task_id} ELSE delivered
    /\ UNCHANGED <<now, rx_open, poisoned, exec, evicted>>

DoSnarkTask(params) ==
    /\ DoSnarkTaskCall(params)
    /\ UNCHANGED aux

GetSnarkTaskResultCall(task_id) ==
    LET r == server_info_lock(get_task_result(si, task_id, now)) IN
    /\ si' = r.si
    /\ resp' = [op |-> "GetSnarkTaskResult", task_id |-> task_id, code |-> r.ret.code,
                msg |-> IF r.ret.code = "OK"
                        THEN IF Len(r.ret.val) > 0 THEN <<"ok">> ELSE <<"Working">>
                        ELSE r.ret.msg,
                result |-> r.ret.val]
    /\ delivered' = IF r.ret.code = "OK" /\ r.si.status = "Free"
                    THEN delivered \cup {task_id} ELSE delivered
    /\ UNCHANGED <<now, chan, rx_open, poisoned, exec, produced, evicted>>

GetSnarkTaskResult(task_id) ==
    /\ GetSnarkTaskResultCall(task_id)
    /\ UNCHANGED aux

UnlockServerCall(task_id) ==
    LET r == server_info_lock(unlock(si, task_id, now)) IN
    /\ si' = r.si
    /\ resp' = [op |-> "UnlockServer", task_id |-> task_id, code |-> r.ret.code,
                msg |-> IF r.ret.code = "OK" THEN <<"ok">> ELSE r.ret.msg, result |-> <<>>]
    /\ UNCHANGED <<now, chan, rx_open, poisoned, exec, produced, delivered, evicted>>

UnlockServer(task_id) ==
    /\ UnlockServerCall(task_id)
    /\ UNCHANGED aux

\* ------------------------------------------------------ the task executor

\* Steps 1-3: take a signal, check the slot is Working/Ready, flip to Working.
\* The flip is a task_status-changing write, so it also writes last_update_time
\* (invariant 6 of the specification).
ExecutorRecvStep ==
    /\ rx_open
    /\ exec.pc = "idle"
    /\ chan > 0
    /\ chan' = chan - 1
    /\ IF si.status = "Working" /\ si.task_info.task_status = "Ready"
       THEN /\ si' = [si EXCEPT !.task_info.task_status = "Working",
                                !.last_update_time = now]
            /\ exec' = [pc |-> "running", task_id |-> si.task_info.task_id]
       ELSE UNCHANGED <<si, exec>>
    /\ UNCHANGED <<now, rx_open, poisoned, resp, produced, delivered, evicted>>

ExecutorRecv ==
    /\ ExecutorRecvStep
    /\ UNCHANGED aux

\* Step 5: the engine returned bytes r; written if the slot is still the task's.
ExecutorSuccessStep(r) ==
    /\ exec.pc = "running"
    /\ si' = IF si.task_info.task_id = exec.task_id
             THEN [si EXCEPT !.task_info.result = r,
                             !.task_info.task_status = "Done",
                             !.last_update_time = now]
             ELSE si
    /\ produced' = IF produced.task_id = exec.task_id
                   THEN [produced EXCEPT !.bytes = r] ELSE produced
    /\ exec' = [pc |-> "idle", task_id |-> ""]
    /\ UNCHANGED <<now, chan, rx_open, poisoned, resp, delivered, evicted>>

ExecutorSuccess(r) ==
    /\ ExecutorSuccessStep(r)
    /\ UNCHANGED aux

\* Step 6: the engine failed with e.
ExecutorFailureStep(e) ==
    /\ exec.pc = "running"
    /\ si' = IF si.task_info.task_id = exec.task_id
             THEN [si EXCEPT !.error = e,
                             !.task_info.task_status = "Failed",
                             !.last_update_time = now]
             ELSE si
    /\ exec' = [pc |-> "idle", task_id |-> ""]
    /\ UNCHANGED <<now, chan, rx_open, poisoned, resp, produced, delivered, evicted>>

ExecutorFailure(e) ==
    /\ ExecutorFailureStep(e)
    /\ UNCHANGED aux

\* The supervisor tears the executor down: the receiver is dropped.
DropReceiverStep ==
    /\ rx_open
    /\ exec.pc = "idle"
    /\ rx_open' = FALSE
    /\ UNCHANGED <<si, now, poisoned, chan, exec, resp, produced, delivered, evicted>>

DropReceiver ==
    /\ DropReceiverStep
    /\ UNCHANGED aux

\* Time passes.
TickStep ==
    /\ now < MaxTime
    /\ now' = now + 1
    /\ UNCHANGED <<si, chan, rx_open, poisoned, exec, resp, produced, delivered, evicted>>

Tick ==
    /\ TickStep
    /\ UNCHANGED aux

Next ==
    \/ \E id \in TaskIds : LockServerIfFree(id)
    \/ \E p \in SnarkTaskRequestParams : DoSnarkTask(p)
    \/ \E id \in TaskIds : GetSnarkTaskResult(id)
    \/ \E id \in TaskIds : UnlockServer(id)
    \/ ExecutorRecv
    \/ \E r \in Results : ExecutorSuccess(r)
    \/ \E e \in Errors : ExecutorFailure(e)
    \/ DropReceiver
    \/ Tick

Spec == Init /\ [][Next]_vars

\* ------------------------------------------- a race of lock_if_free calls
\* Every task_id calls lock_server_if_free once; the handlers run one at a time
\* under the mutex, in any order. The winner may submit. The clock may advance
\* as long as the lock does not time out.

RaceLock(task_id) ==
    /\ rets[task_id] = "none"
    /\ LockCall(task_id)
    /\ rets' = [rets EXCEPT ![task_id] = resp'.msg[1]]
    /\ UNCHANGED <<pc, sup>>

RaceSubmit(params) ==
    /\ rets[params.task_id] # "none"
    /\ DoSnarkTask(params)

RaceTick ==
    /\ si.status = "Locked" => ~lock_time_out_elapsed(si, now + 1)
    /\ Tick

RaceNext ==
    \/ \E id \in TaskIds : RaceLock(id)
    \/ \E p \in SnarkTaskRequestParams : RaceSubmit(p)
    \/ RaceTick

SpecRace == Init /\ [][RaceNext]_vars

\* ------------------------------------------------------------------ claims

Holder == si.task_info.task_id
Called == { id \in TaskIds : rets[id] # "none" }
Winners == { id \in TaskIds : rets[id] = "Free" }

\* C1: starting from Free, among concurrent lock_if_free calls with distinct
\* task_ids and no timeout elapsing, exactly one returns Free, every other one
\* returns Locked or Working, and the slot is held by the one that returned Free.
C1_SingleSlotMutualExclusion ==
    /\ Called # {} => Cardinality(Winners) = 1
    /\ \A id \in Called \ Winners : rets[id] \in {"Locked", "Working"}
    /\ \A id \in Winners : Holder = id /\ si.status \in {"Locked", "Working"}

\* C1 witness: all the calls have returned, and losers saw Locked and Working.
C1_Witness ==
    /\ Called = TaskIds
    /\ \E id \in TaskIds : rets[id] = "Locked"
    /\ \E id \in TaskIds : rets[id] = "Working"

\* C2 as stated: a get_result that returns the bytes of a Done task frees the
\* slot, and every later get_result with that task_id, until the id submits
\* again, fails with "no task running" and returns no bytes.
C2_ExactlyOnceNoTaskRunning ==
    [][\A id \in TaskIds : GetSnarkTaskResult(id) =>
          /\ (si.status = "Working" /\ Holder = id /\ si.task_info.task_status = "Done")
                => (resp'.code = "OK" /\ resp'.result = si.task_info.result
                    /\ si'.status = "Free")
          /\ id \in delivered
                => (resp'.code = "CANCELLED" /\ resp'.msg = NoTaskRunningOnSever
                    /\ resp'.result = <<>>)]_vars

\* C2 amended: a get_result that returns the bytes of a Done task frees the slot,
\* and every later get_result with that task_id, until the id submits again,
\* fails and returns no bytes: with "no task running" (CANCELLED) while the status
\* is not Working, and with the id-mismatch error (INVALID_ARGUMENT) once another
\* task_id has put the slot in Working.
C2_ExactlyOnceDelivery ==
    [][\A id \in TaskIds : GetSnarkTaskResult(id) =>
          /\ (si.status = "Working" /\ Holder = id /\ si.task_info.task_status = "Done")
                => (resp'.code = "OK" /\ resp'.result = si.task_info.result
                    /\ si'.status = "Free")
          /\ id \in delivered
                => /\ resp'.result = <<>>
                   /\ si' = si
                   /\ IF si.status = "Working"
                      THEN /\ resp'.code = "INVALID_ARGUMENT"
                           /\ resp'.msg = InvalidParameters(
                                  <<"current working task id is:", Holder, ",but:", id>>)
                      ELSE /\ resp'.code = "CANCELLED"
                           /\ resp'.msg = NoTaskRunningOnSever]_vars

\* C2 witness: a task_id whose result was delivered polled again while another
\* task_id's task occupied the slot.
C2_Witness ==
    /\ resp.op = "GetSnarkTaskResult"
    /\ resp.task_id \in delivered
    /\ resp.code = "INVALID_ARGUMENT"
    /\ si.status = "Working"

\* While the executor runs a task the slot stays that task's: Working, with
\* task_status Working and the task_id the executor started with. No handler
\* changes a Working slot whose task is Ready or Working, so the slot is never
\* re-locked under a running task.
ExecutorOwnsSlot ==
    exec.pc = "running" =>
        /\ si.status = "Working"
        /\ si.task_info.task_status = "Working"
        /\ Holder = exec.task_id

\* C4: a get_result(T) that returns non-empty bytes returns the bytes the engine
\* produced for the latest accepted submission, and that submission is T's.
C4_NoStaleResult ==
    [][\A id \in TaskIds :
          (GetSnarkTaskResult(id) /\ resp'.code = "OK" /\ resp'.result # <<>>)
             => /\ produced.submitted
                /\ produced.task_id = id
                /\ produced.bytes = resp'.result]_vars

\* C4 witness: a task that took the slot over from an abandoned finished task
\* got its own bytes.
C4_Witness ==
    /\ resp.op = "GetSnarkTaskResult"
    /\ resp.code = "OK"
    /\ resp.result # <<>>
    /\ resp.result = produced.bytes
    /\ evicted.from = "Working"
    /\ evicted.task_id # resp.task_id

\* C5: in status Locked, lock_if_free by another task_id returns Free and installs
\* the new task_id (status Locked, last_update = now) exactly when
\* now - last_update_time > server_lock_time_out, and otherwise returns Locked and
\* changes nothing; a submit_task by the evicted task_id is then cancelled.
C5_LockTimeoutReclamation ==
    [][/\ \A id \in TaskIds :
             (LockServerIfFree(id) /\ si.status = "Locked" /\ id # Holder)
                => IF now - si.last_update_time > server_lock_time_out
                   THEN /\ resp'.code = "OK" /\ resp'.msg = <<"Free">>
                        /\ si'.status = "Locked"
                        /\ si'.task_info = [TaskInfoDefault EXCEPT !.task_id = id]
                        /\ si'.last_update_time = now
                   ELSE /\ resp'.code = "OK" /\ resp'.msg = <<"Locked">>
                        /\ si' = si
       /\ \A p \in SnarkTaskRequestParams :
             (DoSnarkTask(p) /\ evicted.from = "Locked" /\ evicted.task_id = p.task_id)
                => (resp'.code = "CANCELLED" /\ si' = si)]_vars

\* C5 witness: the lock was stolen and the evicted task_id's submit was cancelled.
C5_Witness ==
    /\ resp.op = "DoSnarkTask"
    /\ resp.code = "CANCELLED"
    /\ evicted.from = "Locked"
    /\ evicted.task_id = resp.task_id
    /\ si.status = "Locked"
    /\ Holder # resp.task_id

\* C6 as stated: in status Working, lock_if_free by another task_id returns Free
\* and installs the new task_id exactly when the task is Done or Failed and
\* now - last_update_time >= server_task_get_back_time_out, and otherwise returns
\* Working; a get_result by the abandoned task's task_id is then cancelled.
C6_PickupReclamationCancelled ==
    [][/\ \A id \in TaskIds :
             (LockServerIfFree(id) /\ si.status = "Working" /\ id # Holder)
                => IF /\ si.task_info.task_status \in {"Done", "Failed"}
                      /\ now - si.last_update_time >= server_task_get_back_time_out
                   THEN /\ resp'.code = "OK" /\ resp'.msg = <<"Free">>
                        /\ si'.status = "Locked"
                        /\ si'.task_info = [TaskInfoDefault EXCEPT !.task_id = id]
                        /\ si'.last_update_time = now
                   ELSE /\ resp'.code = "OK" /\ resp'.msg = <<"Working">>
                        /\ si' = si
       /\ \A id \in TaskIds :
             (GetSnarkTaskResult(id) /\ evicted.from = "Working" /\ evicted.task_id = id)
                => resp'.code = "CANCELLED"]_vars

\* C6 amended: the same reclamation rule; a get_result by the abandoned task's
\* task_id is then rejected without changing the slot: cancelled ("no task
\* running") while the new holder has not submitted, and invalid-argument (id
\* mismatch) once the new holder's task is Working.
C6_PickupReclamation ==
    [][/\ \A id \in TaskIds :
             (LockServerIfFree(id) /\ si.status = "Working" /\ id # Holder)
                => IF /\ si.task_info.task_status \in {"Done", "Failed"}
                      /\ now - si.last_update_time >= server_task_get_back_time_out
                   THEN /\ resp'.code = "OK" /\ resp'.msg = <<"Free">>
                        /\ si'.status = "Locked"
                        /\ si'.task_info = [TaskInfoDefault EXCEPT !.task_id = id]
                        /\ si'.last_update_time = now
                   ELSE /\ resp'.code = "OK" /\ resp'.msg = <<"Working">>
                        /\ si' = si
       /\ \A id \in TaskIds :
             (GetSnarkTaskResult(id) /\ evicted.from = "Working" /\ evicted.task_id = id)
                => /\ si' = si
                   /\ resp'.result = <<>>
                   /\ resp'.code = IF si.status = "Working"
                                   THEN "INVALID_ARGUMENT" ELSE "CANCELLED"]_vars

\* C6 witness: an abandoned Done task was reclaimed and its owner's poll cancelled.
C6_Witness ==
    /\ resp.op = "GetSnarkTaskResult"
    /\ resp.code = "CANCELLED"
    /\ evicted.from = "Working"
    /\ evicted.task_id = resp.task_id
    /\ si.status = "Locked"
    /\ Holder # resp.task_id

\* C7: while task_id H holds the slot, submit_task (Locked), get_result (Working)
\* and unlock (Locked) with another task_id return an error and leave the
\* ServerInfo as it was.
C7_IdMatching ==
    [][/\ \A p \in SnarkTaskRequestParams :
             (DoSnarkTask(p) /\ si.status = "Locked" /\ p.task_id # Holder)
                => (resp'.code # "OK" /\ si' = si /\ chan' = chan)
       /\ \A id \in TaskIds :
             (GetSnarkTaskResult(id) /\ si.status = "Working" /\ id # Holder)
                => (resp'.code # "OK" /\ resp'.result = <<>> /\ si' = si)
       /\ \A id \in TaskIds :
             (UnlockServer(id) /\ si.status = "Locked" /\ id # Holder)
                => (resp'.code # "OK" /\ si' = si)]_vars

\* C7 witness: a submit with a foreign task_id was rejected while the slot was Locked.
C7_Witness ==
    /\ resp.op = "DoSnarkTask"
    /\ resp.code # "OK"
    /\ si.status = "Locked"
    /\ Holder # resp.task_id
    /\ resp.msg = <<"server was locked by another task, can not be used now">>

\* C8: while the status is Working and the task is Ready or Working, a get_result
\* with the holder's task_id returns empty bytes with msg "Working" and leaves the
\* ServerInfo as it was.
C8_IdempotentPolling ==
    [][\A id \in TaskIds :
          (/\ GetSnarkTaskResult(id)
           /\ si.status = "Working"
           /\ id = Holder
           /\ si.task_info.task_status \in {"Ready", "Working"})
             => /\ resp'.code = "OK"
                /\ resp'.msg = <<"Working">>
                /\ resp'.result = <<>>
                /\ si' = si]_vars

\* C8 witness: the holder polled while the executor was running its task.
C8_Witness ==
    /\ resp.op = "GetSnarkTaskResult"
    /\ resp.code = "OK"
    /\ resp.msg = <<"Working">>
    /\ resp.task_id = Holder
    /\ si.status = "Working"
    /\ si.task_info.task_status = "Working"
    /\ exec.pc = "running"

\* C9: status Free implies that task_info is zeroed.
C9_FreeImpliesZeroed ==
    si.status = "Free" => si.task_info = TaskInfoDefault

\* C10: status Working implies a non-empty task_id and a task_status among
\* Ready, Working, Done, Failed.
C10_WorkingHasTask ==
    si.status = "Working" =>
        /\ Holder # ""
        /\ si.task_info.task_status \in {"Ready", "Working", "Done", "Failed"}

\* C11: in every reachable state a task whose task_status is Done has a
\* non-empty result, so that get_snark_task_result (which answers "ok" only for
\* a non-empty byte vector) always delivers a Done task as "ok" with its bytes.
C11_DoneHasResult ==
    si.task_info.task_status = "Done" => si.task_info.result # <<>>

\* C12: ServerInfo.error is non-empty exactly when the task in the slot is
\* Failed; in particular it is empty again once a new task holds the slot.
C12_ErrorIffFailed ==
    (si.error # "") <=> (si.task_info.task_status = "Failed")

\* The tasks the executor has been given and has not finished: the signals
\* waiting in task_run_tx plus the task it is running.
InFlight == chan + (IF exec.pc = "running" THEN 1 ELSE 0)

\* C13: at most one task executes at any time. No second task is started or
\* queued while one runs: a signal is sent only by the do_task that takes the
\* slot from Locked to Working, and a Working slot is not given away before
\* its task is Done or Failed, so the task that runs is the task in the slot.
C13_AtMostOneTask ==
    /\ InFlight <= 1
    /\ exec.pc = "running" => /\ si.status = "Working"
                              /\ si.task_info.task_id = exec.task_id

\* A second task runs after the first was delivered or its slot reclaimed.
C13_Witness ==
    /\ exec.pc = "running"
    /\ delivered # {} \/ evicted.from = "Working"

\* C14: every step that changes status or task_status (a lock that acquires,
\* a submit, an unlock, a delivering get_result, the executor's writes) also
\* sets last_update_time to the time of the step.
C14_LastUpdateOnChange ==
    [][(\/ si'.status # si.status
        \/ si'.task_info.task_status # si.task_info.task_status)
       => si'.last_update_time = now]_vars

\* A task_status change later than the submit: the time written is the step's.
C14_Witness ==
    /\ now > 0
    /\ si.last_update_time = now
    /\ si.task_info.task_status \in {"Working", "Failed"}
    /\ produced.submitted

\* Whether the error string e occurs in the message m (a sequence of parts).
Contains(m, e) == \E i \in 1..Len(m) : m[i] = e

\* C15: when status is Working and task_status is Failed, a get_result with
\* the holder's task_id sets status to Free and returns an error with the
\* CANCELLED code whose message contains the stored executor error string.
C15_FailedDeliveryCancelled ==
    [][\A id \in TaskIds :
         (/\ GetSnarkTaskResult(id)
          /\ si.status = "Working"
          /\ si.task_info.task_status = "Failed"
          /\ id = Holder)
         => /\ si'.status = "Free"
            /\ resp'.code = "CANCELLED"
            /\ Contains(resp'.msg, si.error)]_vars

\* C16: unlock succeeds only when status is Locked and the task_id matches;
\* it then returns OK and restores Free with a zeroed task_info, and a
\* lock_if_free by any task_id at that moment returns Free. In every other
\* case (Free, Working, Unknown, or another task_id) it fails and changes
\* nothing.
C16_UnlockRoundTrip ==
    [][\A id \in TaskIds :
         /\ UnlockServer(id) =>
              IF si.status = "Locked" /\ id = Holder
              THEN /\ resp'.code = "OK"
                   /\ si'.status = "Free"
                   /\ si'.task_info = TaskInfoDefault
                   /\ \A m \in TaskIds :
                        lock_server_if_free(si', m, now).ret.val = "Free"
              ELSE /\ resp'.code # "OK"
                   /\ si' = si
         /\ LET u == [si EXCEPT !.status = "Unknown"] IN
            /\ unlock(u, id, now).si = u
            /\ unlock(u, id, now).ret.code # "OK"]_vars

\* M locked and unlocked: the slot is Free and zeroed, the unlock answered OK.
C16_Witness ==
    /\ resp.op = "UnlockServer"
    /\ resp.code = "OK"
    /\ resp.task_id = "A"
    /\ si.status = "Free"
    /\ si.task_info = TaskInfoDefault

\* C18: every rejection by submit_task and unlock is answered with CANCELLED;
\* INVALID_ARGUMENT is answered only by get_result (task_id mismatch on
\* pickup); ABORTED is answered only for internal corruption (a poisoned
\* mutex), which no step of Spec produces.
C18_RejectionCodes ==
    /\ (resp.op \in {"DoSnarkTask", "UnlockServer"} /\ resp.code # "OK")
         => resp.code = "CANCELLED"
    /\ resp.code = "INVALID_ARGUMENT" => resp.op = "GetSnarkTaskResult"
    /\ resp.code # "ABORTED"

\* ------------------------------------------------- the client's protocol
\* generate_window_post: the client draws a task_id, then loops: lock (an Err
\* sleeps and retries), submit (an Err sleeps and restarts from the lock), then
\* polls the result until msg is "ok"; an Err from the poll is returned to the
\* caller and ends the protocol. The engine only succeeds here.

\* Uuid::new_v4(): distinct, non-empty.
Clients == {"A", "B"}

ClientStart(c) ==
    /\ pc[c] = "free"
    /\ pc' = [pc EXCEPT ![c] = "lock"]
    /\ UNCHANGED <<si, now, chan, rx_open, poisoned, exec, resp, produced, delivered,
                   evicted, rets, sup>>

\* The msg of an Ok answer is printed and not looked at.
ClientLock(c) ==
    /\ pc[c] = "lock"
    /\ LockCall(c)
    /\ pc' = [pc EXCEPT ![c] = IF resp'.code = "OK" THEN "submit" ELSE "lock"]
    /\ UNCHANGED <<rets, sup>>

ClientSubmit(c) ==
    /\ pc[c] = "submit"
    /\ \E p \in SnarkTaskRequestParams :
         /\ p.task_id = c
         /\ DoSnarkTaskCall(p)
    /\ pc' = [pc EXCEPT ![c] = IF resp'.code = "OK" THEN "poll" ELSE "lock"]
    /\ UNCHANGED <<rets, sup>>

ClientPoll(c) ==
    /\ pc[c] = "poll"
    /\ GetSnarkTaskResultCall(c)
    /\ pc' = [pc EXCEPT ![c] = IF resp'.code # "OK" THEN "failed"
                               ELSE IF resp'.msg = <<"ok">> THEN "done"
                               ELSE "poll"]
    /\ UNCHANGED <<rets, sup>>

ClientNext ==
    \/ \E c \in Clients : ClientStart(c)
    \/ \E c \in Clients : ClientLock(c)
    \/ \E c \in Clients : ClientSubmit(c)
    \/ \E c \in Clients : ClientPoll(c)
    \/ ExecutorRecv
    \/ \E r \in Results : ExecutorSuccess(r)
    \/ Tick

SpecClient == Init /\ [][ClientNext]_vars

\* C19: a client that follows the protocol, with an engine that succeeds,
\* ends by receiving msg "ok" with the bytes of its task, also when others
\* compete with the same protocol. In particular its polling never ends in an
\* RPC error: a client whose poll failed has stopped and receives nothing.
C19_ClientCompletes ==
    \A c \in Clients : pc[c] # "failed"

\* ------------------------------------------------- a holder that disappears
\* The server runs as in Spec, with the executor alive, until some holder of
\* the slot goes silent (Abandon). From then on the only calls are
\* lock_server_if_free calls with task_ids other than the silent holder's,
\* the executor finishes what it was given, and the clock keeps running.

Quiet == \E id \in TaskIds : pc[id] = "gone"
Reclaimed == \E id \in TaskIds : pc[id] = "reclaimed"

Abandon ==
    /\ ~Quiet
    /\ si.status \in {"Locked", "Working"}
    /\ pc' = [pc EXCEPT ![Holder] = "gone"]
    /\ UNCHANGED <<si, now, chan, rx_open, poisoned, exec, resp, produced, delivered,
                   evicted, rets, sup>>

CompetitorLock(task_id) ==
    /\ Quiet
    /\ ~Reclaimed
    /\ pc[task_id] # "gone"
    /\ LockCall(task_id)
    /\ pc' = IF resp'.msg = <<"Free">>
             THEN [pc EXCEPT ![task_id] = "reclaimed"] ELSE pc
    /\ UNCHANGED <<rets, sup>>

\* The clock without an end. Instant is opaque and the handlers read only
\* now - last_update_time, so once now is at MaxTime the origin is moved
\* instead: last_update_time goes back by one, down to 0. Ages of MaxTime
\* and more are not told apart, and both timeouts are at most MaxTime.
LiveTick ==
    /\ Quiet
    /\ IF now < MaxTime
       THEN /\ now' = now + 1
            /\ si' = si
       ELSE /\ now' = now
            /\ si' = [si EXCEPT !.last_update_time =
                                   IF @ > 0 THEN @ - 1 ELSE 0]
    /\ UNCHANGED <<chan, rx_open, poisoned, exec, resp, produced, delivered, evicted,
                   rets, pc, sup>>

ExecutorFinish ==
    \/ \E r \in Results : ExecutorSuccess(r)
    \/ \E e \in Errors : ExecutorFailure(e)

LiveNext ==
    \/ ~Quiet /\ \E id \in TaskIds : LockServerIfFree(id)
    \/ ~Quiet /\ \E p \in SnarkTaskRequestParams : DoSnarkTask(p)
    \/ ~Quiet /\ \E id \in TaskIds : GetSnarkTaskResult(id)
    \/ ~Quiet /\ \E id \in TaskIds : UnlockServer(id)
    \/ ~Quiet /\ Tick
    \/ Abandon
    \/ \E id \in TaskIds : CompetitorLock(id)
    \/ ExecutorRecv
    \/ ExecutorFinish
    \/ LiveTick

SpecLive ==
    /\ Init
    /\ [][LiveNext]_vars
    /\ WF_vars(LiveTick)
    /\ WF_vars(ExecutorRecv)
    /\ WF_vars(ExecutorFinish)
    /\ WF_vars(\E id \in TaskIds : CompetitorLock(id))

\* C17: no holder keeps the slot forever by disappearing. Once the holder of
\* a Locked or Working slot is silent, time advances, the executor finishes
\* and others keep calling lock_if_free, one of those calls returns Free.
C17_NoHolderForever == Quiet ~> Reclaimed

\* The silent holder's finished task was taken over by another task_id.
C17_Witness ==
    /\ Reclaimed
    /\ evicted.from = "Working"
    /\ pc[evicted.task_id] = "gone"

\* ------------------------------------------------- the lifecycle supervisor
\* run_server serves until srv_exit_rx receives. The sender's side is the
\* supervisor's: it learns from the executor that a task has completed, and
\* when the slot has then been Free for longer than
\* server_exit_time_out_after_task_done it sends the exit signal, after which
\* no RPC is accepted.

\* sup.free_since records the time of the last step that made the slot Free.
Observe ==
    sup' = [sup EXCEPT !.free_since =
                          IF si'.status = "Free" /\ si.status # "Free"
                          THEN now ELSE @]

ShutLock(task_id) ==
    /\ ~sup.exit_sent
    /\ LockCall(task_id)
    /\ Observe
    /\ UNCHANGED <<rets, pc>>

ShutSubmit(params) ==
    /\ ~sup.exit_sent
    /\ DoSnarkTaskCall(params)
    /\ Observe
    /\ UNCHANGED <<rets, pc>>

ShutResult(task_id) ==
    /\ ~sup.exit_sent
    /\ GetSnarkTaskResultCall(task_id)
    /\ Observe
    /\ UNCHANGED <<rets, pc>>

ShutUnlock(task_id) ==
    /\ ~sup.exit_sent
    /\ UnlockServerCall(task_id)
    /\ Observe
    /\ UNCHANGED <<rets, pc>>

ShutFinish ==
    /\ \/ \E r \in Results : ExecutorSuccessStep(r)
       \/ \E e \in Errors : ExecutorFailureStep(e)
    /\ sup' = [sup EXCEPT !.task_done = TRUE]
    /\ UNCHANGED <<rets, pc>>

SupervisorCheck ==
    /\ ~sup.exit_sent
    /\ sup.task_done
    /\ si.status = "Free"
    /\ duration_since(now, si.last_update_time) > server_exit_time_out_after_task_done
    /\ sup' = [sup EXCEPT !.exit_sent = TRUE]
    /\ UNCHANGED <<si, now, chan, rx_open, poisoned, exec, resp, produced, delivered,
                   evicted, rets, pc>>

ShutNext ==
    \/ \E id \in Clients : ShutLock(id)
    \/ \E p \in SnarkTaskRequestParams : p.task_id \in Clients /\ ShutSubmit(p)
    \/ \E id \in Clients : ShutResult(id)
    \/ \E id \in Clients : ShutUnlock(id)
    \/ ExecutorRecv
    \/ ShutFinish
    \/ SupervisorCheck
    \/ Tick

SpecShutdown == Init /\ [][ShutNext]_vars /\ WF_vars(SupervisorCheck)

IdleLongEnough ==
    /\ sup.task_done
    /\ si.status = "Free"
    /\ now - sup.free_since > server_exit_time_out_after_task_done

Poison ==
    /\ ~poisoned
    /\ poisoned' = TRUE
    /\ UNCHANGED <<si, now, chan, rx_open, exec, resp, produced, delivered,
                   evicted, rets, pc, sup>>

PoisonNext ==
    \/ \E id \in Clients : LockServerIfFree(id)
    \/ \E p \in SnarkTaskRequestParams : p.task_id \in Clients /\ DoSnarkTask(p)
    \/ \E id \in Clients : GetSnarkTaskResult(id)
    \/ \E id \in Clients : UnlockServer(id)
    \/ ~poisoned /\ ExecutorRecv
    \/ ~poisoned /\ ExecutorFinish
    \/ Tick
    \/ Poison

SpecPoison == Init /\ [][PoisonNext]_vars

\* What each handler does when it finds status Unknown: nothing, and only
\* lock_server_if_free returns Ok, with Unknown.
UnknownIsTerminal(s, task_id, t) ==
    LET u == [s EXCEPT !.status = "Unknown"] IN
    /\ lock_server_if_free(u, task_id, t) = [si |-> u, ret |-> Ok("Unknown")]
    /\ \A p \in SnarkTaskRequestParams :
         /\ do_task(u, p, t, TRUE).si = u
         /\ do_task(u, p, t, TRUE).ret.code # "OK"
         /\ ~do_task(u, p, t, TRUE).sent
    /\ get_task_result(u, task_id, t).si = u
    /\ get_task_result(u, task_id, t).ret.code # "OK"
    /\ unlock(u, task_id, t).si = u
    /\ unlock(u, task_id, t).ret.code # "OK"

\* C21: with the mutex poisoned each of the four operations returns ABORTED
\* and the slot's status becomes Unknown; and a slot in status Unknown stays
\* as it is: lock_if_free returns Unknown, the other three fail, none writes.
C21_PoisonBecomesUnknown ==
    [][\A id \in TaskIds :
         /\ (/\ poisoned
             /\ \/ LockServerIfFree(id)
                \/ \E p \in SnarkTaskRequestParams : p.task_id = id /\ DoSnarkTask(p)
                \/ GetSnarkTaskResult(id)
                \/ UnlockServer(id))
            => /\ resp'.code = "ABORTED"
               /\ si'.status = "Unknown"
         /\ UnknownIsTerminal(si, id, now)]_vars

\* C22: submit_task succeeds only when status is Locked and the task_id is
\* the holder's; then task_info is the params with empty result and
\* task_status Ready, status is Working and one run signal was sent. In
\* status Free, Working (also for the holder's own task_id) and Unknown it
\* fails, writes nothing and sends nothing, so a lock admits one submit.
C22_SubmitSemantics ==
    [][\A p \in SnarkTaskRequestParams :
         DoSnarkTask(p) =>
           /\ resp'.code = "OK" =>
                /\ si.status = "Locked"
                /\ p.task_id = Holder
                /\ si'.task_info = set_task_info(p)
                /\ si'.task_info.result = <<>>
                /\ si'.task_info.task_status = "Ready"
                /\ si'.status = "Working"
                /\ chan' = chan + 1
           /\ si.status \in {"Free", "Working"} =>
                /\ resp'.code # "OK"
                /\ si' = si
                /\ chan' = chan
           /\ LET u == [si EXCEPT !.status = "Unknown"] IN
              /\ do_task(u, p, now, rx_open).si = u
              /\ do_task(u, p, now, rx_open).ret.code # "OK"
              /\ ~do_task(u, p, now, rx_open).sent]_vars

\* The holder's submit was accepted and its resubmission rejected: the slot
\* is Working on the task as submitted, with one signal on its way.
C22_Witness ==
    /\ resp.op = "DoSnarkTask"
    /\ resp.code = "CANCELLED"
    /\ resp.task_id = Holder
    /\ si.status = "Working"
    /\ si.task_info.task_status = "Ready"
    /\ chan = 1
    /\ rx_open

\* C23: a valid submit (Locked, the holder's task_id) that finds the run-signal
\* channel closed returns CANCELLED, sends nothing and still leaves the slot
\* Working with task_status Ready; and with the channel closed such a slot
\* never changes again, whatever is called and however long it takes.
C23_ClosedChannelWedges ==
    [][/\ \A p \in SnarkTaskRequestParams :
            (/\ DoSnarkTask(p)
             /\ ~rx_open
             /\ si.status = "Locked"
             /\ p.task_id = Holder)
            => /\ resp'.code = "CANCELLED"
               /\ chan' = chan
               /\ si'.status = "Working"
               /\ si'.task_info.task_status = "Ready"
       /\ (/\ ~rx_open
           /\ si.status = "Working"
           /\ si.task_info.task_status = "Ready")
          => si' = si]_vars

\* The rejected submit left the slot Working; long after, a lock_if_free by
\* another task_id still finds it Working.
C23_Witness ==
    /\ ~rx_open
    /\ chan = 0
    /\ si.status = "Working"
    /\ si.task_info.task_status = "Ready"
    /\ duration_since(now, si.last_update_time) >= server_task_get_back_time_out
    /\ resp.op = "LockServerIfFree"
    /\ resp.task_id # Holder
    /\ resp.msg = <<"Working">>

\* C24: a lock_if_free that returns Locked, Working or Unknown writes nothing
\* to ServerInfo, neither last_update_time nor the holder's task_id, whoever
\* calls it (the holder included); so refused calls never move a deadline.
C24_RefusedLockWritesNothing ==
    [][\A id \in TaskIds :
         /\ (/\ LockServerIfFree(id)
             /\ resp'.msg \in {<<"Locked">>, <<"Working">>, <<"Unknown">>})
            => si' = si
         /\ LET u == [si EXCEPT !.status = "Unknown"] IN
            lock_server_if_free(u, id, now) = [si |-> u, ret |-> Ok("Unknown")]]_vars

\* The holder called lock_if_free again and was answered Locked; its lock
\* still dates from the call that acquired it and has since run out.
C24_Witness ==
    /\ si.status = "Locked"
    /\ resp.op = "LockServerIfFree"
    /\ resp.task_id = Holder
    /\ resp.msg = <<"Locked">>
    /\ lock_time_out_elapsed(si, now)

\* C25: at most one run signal waits in the channel, and while one waits the
\* slot is Working with task_status Ready for the task whose submit sent it
\* and the executor is idle; so the executor, whenever it takes a signal,
\* finds that task Ready and never takes its spurious-signal branch.
C25_OneSignalNeverSpurious ==
    /\ [](/\ chan <= 1
          /\ chan > 0 => /\ si.status = "Working"
                         /\ si.task_info.task_status = "Ready"
                         /\ Holder = produced.task_id
                         /\ exec.pc = "idle")
    /\ [][ExecutorRecv => /\ si.status = "Working"
                          /\ si.task_info.task_status = "Ready"
                          /\ exec'.pc = "running"
                          /\ exec'.task_id = produced.task_id]_vars

\* The executor has taken the signal of a second task.
C25_Witness ==
    /\ exec.pc = "running"
    /\ chan = 0
    /\ exec.task_id = produced.task_id
    /\ delivered # {}
    /\ exec.task_id \notin delivered

\* C26: no preemption. While status is Working and task_status is Ready or
\* Working, no lock_if_free, submit_task, get_result or unlock, with any
\* task_id and after any time, changes status or task_id (nor anything else
\* in ServerInfo); so the executor's write of Done or Failed always finds the
\* slot held by the task_id it started with.
C26_NoPreemption ==
    /\ [][\A id \in TaskIds :
            (/\ si.status = "Working"
             /\ si.task_info.task_status \in {"Ready", "Working"}
             /\ \/ LockServerIfFree(id)
                \/ \E p \in SnarkTaskRequestParams : p.task_id = id /\ DoSnarkTask(p)
                \/ GetSnarkTaskResult(id)
                \/ UnlockServer(id))
            => /\ si'.status = si.status
               /\ si'.task_info.task_id = si.task_info.task_id
               /\ si' = si]_vars
    /\ [][ExecutorFinish => /\ si.status = "Working"
                            /\ si.task_info.task_id = exec.task_id
                            /\ si'.task_info.task_status \in {"Done", "Failed"}]_vars

\* The task finished long after it was started, and in between another
\* task_id's lock_if_free was answered Working.
C26_Witness ==
    /\ si.status = "Working"
    /\ si.task_info.task_status \in {"Done", "Failed"}
    /\ si.last_update_time = MaxTime
    /\ resp.op = "LockServerIfFree"
    /\ resp.task_id # Holder
    /\ resp.msg = <<"Working">>

\* C27: whenever status is Locked, task_info is the zero TaskInfo (blobs and
\* result empty, task_status Ready) except for task_id, and task_id is the id
\* of the lock_if_free call that last returned Free, whatever the slot held
\* before: the task_info of a Locked slot is written by those calls only.
C27_LockedIsZeroed ==
    /\ [](si.status = "Locked"
            => si.task_info = [TaskInfoDefault EXCEPT !.task_id = Holder])
    /\ [][\A id \in TaskIds :
            (LockServerIfFree(id) /\ resp'.msg = <<"Free">>)
            => /\ si'.status = "Locked"
               /\ si'.task_info = [TaskInfoDefault EXCEPT !.task_id = id]]_vars
    /\ [][(si'.status = "Locked" /\ (si.status # "Locked" \/ si'.task_info # si.task_info))
            => /\ resp'.op = "LockServerIfFree"
               /\ resp'.msg = <<"Free">>
               /\ resp'.task_id = si'.task_info.task_id]_vars

\* Locked over an abandoned finished task, and Locked over a delivered one.
C27_Witness ==
    /\ si.status = "Locked"
    /\ resp.op = "LockServerIfFree"
    /\ resp.msg = <<"Free">>
    /\ resp.task_id = Holder
    /\ evicted.from = "Working"
    /\ delivered # {}

\* C28: whenever get_snark_task_result answers msg "Working", the call wrote
\* nothing: the slot is still Working for the same task_id, so a later poll
\* can still fetch the result. No call that tells the client to poll again
\* frees the slot.
C28_WorkingAnswerWritesNothing ==
    [][\A id \in TaskIds :
         (GetSnarkTaskResult(id) /\ resp'.msg = <<"Working">>)
         => /\ si' = si
            /\ si'.status = "Working"
            /\ si'.task_info.task_id = id]_vars
====
